---- MODULE Spec2Model ----
(***************************************************************************)
(* MIPS32 functional simulator with microarchitectural analyzer            *)
(* (src/mips/mips_isa.cpp).                                                *)
(*                                                                         *)
(* The analyzer singleton `global` (struct variables) is one record-valued *)
(* variable; every member function is an operator from the record (and its *)
(* arguments) to the updated record, so that a handler is the sequential   *)
(* composition of the calls it makes.  The architectural state (register   *)
(* bank, hi, lo, ac_pc, npc, data memory) is the record `cpu`.             *)
(*                                                                         *)
(* 32-bit words are held in their two's-complement reading (ac_Sword),     *)
(* -2^31 .. 2^31-1; additions wrap explicitly.                             *)
(***************************************************************************)
EXTENDS Integers, Sequences, FiniteSets, TLC

VARIABLES
  global,    \* the analyzer singleton (struct variables), line 448
  cpu,       \* RB, hi, lo, ac_pc, npc, DM, run status, and whether the
             \* instruction behaviour last executed assigned npc
  instr,     \* the record the last format behaviour pushed (NoInst before)
  taken      \* the value actual_branch_taken returned in the last push

vars == <<global, cpu, instr, taken>>

-----------------------------------------------------------------------------
(* Bounds of the model *)

\* retirements explored from the initial state
MaxRetired == 4

-----------------------------------------------------------------------------
(* 32-bit words *)

MinInt32 == -2147483647 - 1
MaxInt32 == -(MinInt32 + 1)

\* a + b modulo 2^32, in the signed reading
Add32(a, b) ==
  IF a >= 0 /\ b > MaxInt32 - a THEN (a + MinInt32) + (b + MinInt32)
  ELSE IF a < 0 /\ b < MinInt32 - a THEN (a - MinInt32) + (b - MinInt32)
  ELSE a + b

\* x & 0x80000000 is non-zero
SignBit(x) == x < 0

\* x & 0xF0000000
Top4(x) == x - (x % 268435456)

-----------------------------------------------------------------------------
(* struct mips_instruction, and the records the format behaviours build *)

kR == "kR"
kI == "kI"
kJ == "kJ"

NoInst == [type |-> "none", op |-> 0, rs |-> 0, rt |-> 0, rd |-> 0,
           shamt |-> 0, func |-> 0, addr |-> 0, imm |-> 0]

Type_R(rs, rt, rd, shamt, func) ==
  [type |-> kR, op |-> 0, rs |-> rs, rt |-> rt, rd |-> rd,
   shamt |-> shamt, func |-> func, addr |-> 0, imm |-> 0]

Type_I(op, rs, rt, imm) ==
  [type |-> kI, op |-> op, rs |-> rs, rt |-> rt, rd |-> 0,
   shamt |-> 0, func |-> 0, addr |-> 0, imm |-> imm]

Type_J(op, addr) ==
  [type |-> kJ, op |-> op, rs |-> 0, rt |-> 0, rd |-> 0,
   shamt |-> 0, func |-> 0, addr |-> addr, imm |-> 0]

\* the test push and read_hazard make for an encoded NOP
isNop(inst) ==
  inst.op = 0 /\ inst.rs = 0 /\ inst.rt = 0 /\ inst.rd = 0 /\
  inst.func = 0 /\ inst.imm = 0

-----------------------------------------------------------------------------
(* The static tables of struct variables *)

instructions_dont_write ==
  { <<0, 8>>, <<0, 12>>, <<0, 13>>, <<4, 0>>, <<5, 0>>, <<6, 0>>, <<7, 0>>,
    <<1, 0>>, <<40, 0>>, <<41, 0>>, <<43, 0>>, <<57, 0>> }

branch_instructions == { <<4, 0>>, <<5, 0>>, <<6, 0>>, <<7, 0>>, <<1, 0>> }

ld_instructions == { <<32, 0>>, <<36, 0>>, <<33, 0>>, <<37, 0>>, <<35, 0>> }

kNumberOfStoredInstructions == 10
kNumberOfStages == 2
kHistoryDepth == 2
is_fowarding == TRUE

\* enum pipeline_stages
k5 == 0
k7 == 1
k13 == 2

\* hazard_table with the forwarding row running downwards
hazard_table_descending(fw, stage) ==
  IF fw THEN <<3, 2, 1>>[stage + 1] ELSE <<2, 1, 1>>[stage + 1]

\* hazard_table[is_fowarding][pipeline_stage]
hazard_table(fw, stage) ==
  IF fw THEN <<1, 2, 3>>[stage + 1] ELSE <<2, 1, 1>>[stage + 1]

\* const static std::vector<IGroup> groups, in declaration order
groups == <<
  [igroup |-> "ArithLog", readFrom |-> {"Rs", "Rt"}, writeTo |-> {"Rd"},
   instOp |-> { <<0, 32>>, <<0, 33>>, <<0, 36>>, <<0, 39>>, <<0, 37>>,
                <<0, 34>>, <<0, 35>>, <<0, 38>>, <<0, 42>>, <<0, 41>> }],
  [igroup |-> "DivMult", readFrom |-> {"Rs", "Rt"}, writeTo |-> {"Rm"},
   instOp |-> { <<0, 26>>, <<0, 27>>, <<0, 24>>, <<0, 25>> }],
  [igroup |-> "Shift", readFrom |-> {"Rt"}, writeTo |-> {"Rd"},
   instOp |-> { <<0, 0>>, <<0, 3>>, <<0, 2>> }],
  [igroup |-> "ShiftV", readFrom |-> {"Rs", "Rt"}, writeTo |-> {"Rd"},
   instOp |-> { <<0, 4>>, <<0, 7>>, <<0, 6>> }],
  [igroup |-> "JumpR", readFrom |-> {"Rs"}, writeTo |-> {},
   instOp |-> { <<0, 9>>, <<0, 8>> }],
  [igroup |-> "MoveFrom", readFrom |-> {"Rm"}, writeTo |-> {"Rd"},
   instOp |-> { <<0, 16>>, <<0, 18>> }],
  [igroup |-> "MoveTo", readFrom |-> {"Rs"}, writeTo |-> {"Rm"},
   instOp |-> { <<0, 17>>, <<0, 19>> }],
  [igroup |-> "ArithLogI", readFrom |-> {"Rs"}, writeTo |-> {"Rt"},
   instOp |-> { <<8, 0>>, <<9, 0>>, <<12, 0>>, <<13, 0>>, <<14, 0>>,
                <<10, 0>>, <<9, 0>> }],
  [igroup |-> "LoadI", readFrom |-> {}, writeTo |-> {"Rt"},
   instOp |-> { <<25, 0>>, <<24, 0>> }],
  [igroup |-> "Branch", readFrom |-> {"Rs", "Rt"}, writeTo |-> {},
   instOp |-> { <<4, 0>>, <<5, 0>> }],
  [igroup |-> "BranchZ", readFrom |-> {"Rs"}, writeTo |-> {},
   instOp |-> { <<7, 0>>, <<6, 0>> }],
  [igroup |-> "LoadStore", readFrom |-> {"Rs", "Rt"}, writeTo |-> {"Rs", "Rt"},
   instOp |-> { <<32, 0>>, <<36, 0>>, <<33, 0>>, <<37, 0>>, <<35, 0>>,
                <<40, 0>>, <<41, 0>>, <<43, 0>> }],
  [igroup |-> "Jump", readFrom |-> {}, writeTo |-> {},
   instOp |-> { <<2, 0>>, <<3, 0>> }],
  [igroup |-> "Trap", readFrom |-> {}, writeTo |-> {},
   instOp |-> { <<26, 0>> }]
>>

-----------------------------------------------------------------------------
(* struct variables: constructor and member functions *)

Max(a, b) == IF a >= b THEN a ELSE b
Min(a, b) == IF a <= b THEN a ELSE b

\* a | b on the 0/1 results of isHazard
Or01(a, b) == IF a = 1 \/ b = 1 THEN 1 ELSE 0

\* variables::variables(), over the zero-initialised static object
variables ==
  [number_of_instructions |-> 0,
   number_of_nops |-> 0,
   pc_addr |-> 0,
   static_wrong_predictions |-> 0,
   saturating_wrong_predictions |-> 0,
   two_level_wrong_predictions |-> 0,
   total_number_of_branches |-> 0,
   two_level_history |-> 0,
   saturating_stage |-> kNumberOfStages,
   two_level_stages |-> [h \in 0 .. (2 ^ kHistoryDepth - 1) |-> kNumberOfStages],
   number_of_data_hazards |-> [s \in 0 .. 2 |-> 0],
   number_of_control_hazards |-> [s \in 0 .. 2 |-> 0],
   latest_instructions |-> << >>,
   last_write |-> [r \in 0 .. 33 |-> 0],
   ss |-> [ssLoaded |-> FALSE, ssInstCount |-> 0]]

isHazard(distance, pipeline_stage) ==
  IF hazard_table(is_fowarding, pipeline_stage) >= distance THEN 1 ELSE 0

\* the NOP branch of read_hazard (lines 285-294)
read_hazard_nop(g, pipeline_stage) ==
  [g EXCEPT !.number_of_nops = IF pipeline_stage = k5 THEN @ + 1 ELSE @,
            !.last_write = [i \in DOMAIN @ |-> @[i] + 1]]

\* the load lookback taken three records deep at every depth
read_hazard_load_any_depth(win, pipeline_stage) ==
  \E k \in 1 .. 3 : Len(win) >= k /\ <<win[k].op, win[k].func>> \in ld_instructions

\* the load lookback of read_hazard (lines 295-308); latest_instructions[k-1]
\* of the source is win[k] here
read_hazard_load(win, pipeline_stage) ==
  IF Len(win) > 0 /\ <<win[1].op, win[1].func>> \in ld_instructions THEN TRUE
  ELSE IF Len(win) > 1 /\ pipeline_stage # k5 /\
          <<win[2].op, win[2].func>> \in ld_instructions THEN TRUE
  ELSE IF Len(win) > 2 /\ pipeline_stage = k13 /\
          <<win[3].op, win[3].func>> \in ld_instructions THEN TRUE
  ELSE FALSE

read_hazard(g, inst, pipeline_stage) ==
  LET n == g.number_of_instructions
      H(r) == isHazard(n - g.last_write[r], pipeline_stage)
      data(k) == [g EXCEPT !.number_of_data_hazards[pipeline_stage] = @ + k]
      ctrl(k) == [g EXCEPT !.number_of_control_hazards[pipeline_stage] = @ + k]
      store == inst.op = 40 \/ inst.op = 41 \/ inst.op = 43
  IN
  IF isNop(inst) THEN read_hazard_nop(g, pipeline_stage)
  ELSE IF is_fowarding /\ ~read_hazard_load(g.latest_instructions, pipeline_stage)
    THEN g
  ELSE IF inst.type = kR THEN
    IF inst.func = 13 \/ inst.func = 12 THEN g
    ELSE IF inst.func = 16 THEN data(isHazard(n - g.last_write[32], pipeline_stage))
    ELSE IF inst.func = 18 THEN data(isHazard(n - g.last_write[33], pipeline_stage))
    ELSE IF inst.func = 17 \/ inst.func = 19 THEN data(H(inst.rs))
    ELSE IF inst.func = 8 \/ inst.func = 9 THEN ctrl(H(inst.rs))
    ELSE IF inst.shamt # 0 THEN data(H(inst.rt))
    ELSE IF inst.rs # 0 /\ inst.rt # 0 THEN data(Or01(H(inst.rs), H(inst.rt)))
    ELSE IF inst.rs # 0 THEN data(H(inst.rs))
    ELSE IF inst.rt # 0 THEN data(H(inst.rt))
    ELSE g
  ELSE IF inst.type = kI THEN
    IF inst.op = 15 THEN g
    ELSE IF (inst.op = 4 \/ inst.op = 5) /\ (inst.rs # 0 \/ inst.rt # 0)
      THEN ctrl(Or01(H(inst.rs), H(inst.rt)))
    ELSE IF <<inst.op, inst.func>> \in branch_instructions THEN ctrl(H(inst.rs))
    ELSE IF store /\ (inst.rs # 0 /\ inst.rt # 0)
      THEN data(Or01(H(inst.rs), H(inst.rt)))
    ELSE IF store /\ inst.rs # 0 THEN data(H(inst.rs))
    ELSE IF store /\ inst.rt # 0 THEN data(H(inst.rt))
    ELSE IF inst.rs # 0 THEN data(H(inst.rs))
    ELSE g
  ELSE g

write_hazard(g, inst) ==
  LET n == g.number_of_instructions IN
  IF \/ inst.type = kJ
     \/ <<inst.op, inst.func>> \in instructions_dont_write
     \/ (inst.op = 0 /\ inst.rs = 0 /\ inst.rt = 0 /\ inst.func = 0 /\ inst.imm = 0)
    THEN g
  ELSE IF inst.func = 24 \/ inst.func = 25 \/ inst.func = 26 \/ inst.func = 27
    THEN [g EXCEPT !.last_write[32] = n, !.last_write[33] = n]
  ELSE IF inst.func = 17 THEN [g EXCEPT !.last_write[32] = n]
  ELSE IF inst.func = 19 THEN [g EXCEPT !.last_write[33] = n]
  ELSE IF inst.type = kR THEN [g EXCEPT !.last_write[inst.rd] = n]
  ELSE [g EXCEPT !.last_write[inst.rt] = n]

\* actual_branch_taken with the branch count kept only for beq..bgtz
actual_branch_taken_uncounted_regimm(g, inst) ==
  IF inst.type = kI /\ <<inst.op, inst.func>> \in branch_instructions /\ inst.op # 1
    THEN [g EXCEPT !.total_number_of_branches = @ + 1]
    ELSE g

\* actual_branch_taken with the branch counted only when it is taken
actual_branch_taken_counts_taken_only(g, inst) ==
  IF inst.type = kI /\ <<inst.op, inst.func>> \in branch_instructions /\
     (inst.op = 4 => inst.rs = inst.rt) /\ (inst.op = 5 => inst.rs # inst.rt) /\
     (inst.op = 6 => inst.rs <= 0) /\ (inst.op = 7 => inst.rs > 0) /\
     (inst.op = 1 => inst.rt # 0)
    THEN [g EXCEPT !.total_number_of_branches = @ + 1]
    ELSE g

\* the value returned: 0 not a branch, 1 branch not taken, 2 branch taken.
\* The fields compared are the unsigned register INDICES of the record.
actual_branch_taken_ret(inst) ==
  IF inst.type = kI /\ <<inst.op, inst.func>> \in branch_instructions THEN
    1 + (CASE inst.op = 1 ->
                IF inst.rt # 0 THEN (IF inst.rs >= 0 THEN 1 ELSE 0)
                               ELSE (IF inst.rs < 0 THEN 1 ELSE 0)
           [] inst.op = 4 -> IF inst.rs = inst.rt THEN 1 ELSE 0
           [] inst.op = 5 -> IF inst.rs # inst.rt THEN 1 ELSE 0
           [] inst.op = 6 -> IF inst.rs <= 0 THEN 1 ELSE 0
           [] inst.op = 7 -> IF inst.rs > 0 THEN 1 ELSE 0)
  ELSE 0

\* the side effect of actual_branch_taken on the analyzer
actual_branch_taken(g, inst) ==
  IF inst.type = kI /\ <<inst.op, inst.func>> \in branch_instructions
    THEN [g EXCEPT !.total_number_of_branches = @ + 1]
    ELSE g

\* taken != inst.imm < pc_addr   parses as   taken != (inst.imm < pc_addr)
static_branch_prediction(g, tk, inst) ==
  [g EXCEPT !.static_wrong_predictions =
     @ + (IF tk # (inst.imm < g.pc_addr) THEN 1 ELSE 0)]

\* read_saturating_counter predicting taken only in the topmost state
read_saturating_counter_strongly_taken_only(tk, wrong_predictions, stage) ==
  wrong_predictions + (IF tk # (stage > kNumberOfStages) THEN 1 ELSE 0)

\* the new value of the wrong_predictions reference
read_saturating_counter(tk, wrong_predictions, stage) ==
  wrong_predictions + (IF tk # (stage >= kNumberOfStages) THEN 1 ELSE 0)

\* update_saturating_counter without the clamp
update_saturating_counter_unclamped(tk, stage) ==
  stage + (2 * (IF tk THEN 1 ELSE 0) - 1)

\* update_saturating_counter clamped to 0 .. 2 * kNumberOfStages
update_saturating_counter_clamp_one_above(tk, stage) ==
  Max(Min(stage + (2 * (IF tk THEN 1 ELSE 0) - 1), 2 * kNumberOfStages), 0)

\* the new value of the stage reference
update_saturating_counter(tk, stage) ==
  Max(Min(stage + (2 * (IF tk THEN 1 ELSE 0) - 1), 2 * kNumberOfStages - 1), 0)

\* saturating_branch_prediction reading the counter after updating it
saturating_branch_prediction_update_first(g, tk) ==
  LET g1 == [g EXCEPT !.saturating_stage =
                        Max(Min(@ + (2 * (IF tk THEN 1 ELSE 0) - 1),
                                2 * kNumberOfStages - 1), 0)]
  IN [g1 EXCEPT !.saturating_wrong_predictions =
                   @ + (IF tk # (g1.saturating_stage >= kNumberOfStages)
                          THEN 1 ELSE 0)]

saturating_branch_prediction(g, tk) ==
  [g EXCEPT !.saturating_wrong_predictions =
              read_saturating_counter(tk, @, g.saturating_stage),
            !.saturating_stage = update_saturating_counter(tk, @)]

\* update_two_level_history keeping the last outcome only
update_two_level_history_one_bit(g, tk) ==
  [g EXCEPT !.two_level_history = IF tk THEN 1 ELSE 0]

\* (two_level_history << 1 | taken) & ((1 << kHistoryDepth) - 1)
update_two_level_history(g, tk) ==
  [g EXCEPT !.two_level_history =
     (2 * @ + (IF tk THEN 1 ELSE 0)) % (2 ^ kHistoryDepth)]

\* two_level_branch_predictor shifting the history before it looks the
\* counter up
two_level_branch_predictor_history_first(g, tk) ==
  LET g0 == update_two_level_history(g, tk)
      h == g0.two_level_history
  IN [g0 EXCEPT !.two_level_wrong_predictions =
                  read_saturating_counter(tk, @, g0.two_level_stages[h]),
                !.two_level_stages[h] = update_saturating_counter(tk, @)]

two_level_branch_predictor(g, tk) ==
  LET h == g.two_level_history
      g1 == [g EXCEPT !.two_level_wrong_predictions =
                        read_saturating_counter(tk, @, g.two_level_stages[h]),
                      !.two_level_stages[h] = update_saturating_counter(tk, @)]
  IN update_two_level_history(g1, tk)

\* the window update without the pop_front of a NOP
push_window_keeps_nop(g, inst) ==
  LET w1 == <<inst>> \o g.latest_instructions
      w3 == IF Len(w1) > kNumberOfStoredInstructions
              THEN SubSeq(w1, 1, Len(w1) - 1) ELSE w1
  IN [g EXCEPT !.latest_instructions = w3]

\* lines 252-259 of push: the window update
push_window(g, inst) ==
  LET w1 == <<inst>> \o g.latest_instructions
      w2 == IF isNop(inst) THEN Tail(w1) ELSE w1
      w3 == IF Len(w2) > kNumberOfStoredInstructions
              THEN SubSeq(w2, 1, Len(w2) - 1) ELSE w2
  IN [g EXCEPT !.latest_instructions = w3]

push(g, inst) ==
  LET g1 == read_hazard(g, inst, k5)
      g2 == read_hazard(g1, inst, k7)
      g3 == read_hazard(g2, inst, k13)
      g4 == write_hazard(g3, inst)
      tk == actual_branch_taken_ret(inst)
      g5 == actual_branch_taken(g4, inst)
      g6 == IF tk # 0
              THEN two_level_branch_predictor(
                     saturating_branch_prediction(
                       static_branch_prediction(g5, tk - 1 # 0, inst),
                       tk - 1 # 0),
                     tk - 1 # 0)
              ELSE g5
  IN push_window(g6, inst)

\* getRegs: Rm selects no general register
getRegs(i, regs) ==
  (IF "Rs" \in regs THEN {i.rs} ELSE {}) \cup
  (IF "Rt" \in regs THEN {i.rt} ELSE {}) \cup
  (IF "Rd" \in regs THEN {i.rd} ELSE {})

setHasIntersec(A, B) == \E a \in A : \E b \in B : a = b

\* the group the search loop of testSuperscalar leaves in g_prev / g_cur:
\* the last group of `groups` whose instOp holds <op, func>; 0 stands for nullptr
groupOf(i) ==
  LET hits == { k \in 1 .. Len(groups) : <<i.op, i.func>> \in groups[k].instOp }
  IN IF hits = {} THEN 0 ELSE CHOOSE k \in hits : \A m \in hits : m <= k

\* whether testSuperscalar, entered with ssLoaded false and two records in
\* the window, reaches lines 210-211
canPair(i_prev, i_cur) ==
  LET kp == groupOf(i_prev)
      kc == groupOf(i_cur)
  IN
  /\ kp # 0 /\ kc # 0
  /\ ~(groups[kp].igroup = groups[kc].igroup /\
       groups[kc].igroup # "ArithLog" /\ groups[kc].igroup # "ArithLogI")
  /\ ~("Rm" \in (groups[kp].readFrom \cap groups[kc].writeTo))
  /\ ~("Rm" \in (groups[kp].writeTo \cap groups[kc].readFrom))
  /\ ~("Rm" \in (groups[kp].writeTo \cap groups[kc].writeTo))
  /\ LET rd_prev == getRegs(i_prev, groups[kp].readFrom)
         wr_prev == getRegs(i_prev, groups[kp].writeTo)
         rd_cur == getRegs(i_cur, groups[kc].readFrom)
         wr_cur == getRegs(i_cur, groups[kc].writeTo)
     IN ~(setHasIntersec(rd_prev, wr_cur) \/ setHasIntersec(rd_cur, wr_prev) \/
          setHasIntersec(wr_prev, wr_cur))

testSuperscalar(g) ==
  IF Len(g.latest_instructions) < 2 THEN g
  ELSE IF ~g.ss.ssLoaded THEN
    IF canPair(g.latest_instructions[2], g.latest_instructions[1])
      THEN [g EXCEPT !.ss.ssLoaded = TRUE, !.ss.ssInstCount = @ + 1]
      ELSE g
  ELSE [g EXCEPT !.ss.ssLoaded = FALSE]

-----------------------------------------------------------------------------
(* Architectural state and the instruction behaviours *)

\* unsigned comparison of two words held in the signed reading
ULt(a, b) == IF (a < 0) = (b < 0) THEN a < b ELSE b < 0

RECURSIVE Shl32(_, _)
\* x << n modulo 2^32
Shl32(x, n) == IF n = 0 THEN x ELSE Shl32(Add32(x, x), n - 1)

RECURSIVE Shr32(_, _)
\* x >> n of an unsigned word
Shr32(x, n) ==
  IF n = 0 THEN x
  ELSE Shr32(IF x >= 0 THEN x \div 2 ELSE (x - MinInt32) \div 2 + 1073741824, n - 1)

\* the four bytes of a word, most significant first
Bytes(x) ==
  LET u == IF x < 0 THEN x - MinInt32 ELSE x IN
  << (u \div 16777216) + (IF x < 0 THEN 128 ELSE 0),
     (u \div 65536) % 256,
     (u \div 256) % 256,
     u % 256 >>

Word(b) ==
  IF b[1] >= 128
    THEN MinInt32 + ((b[1] - 128) * 16777216 + b[2] * 65536 + b[3] * 256 + b[4])
    ELSE b[1] * 16777216 + b[2] * 65536 + b[3] * 256 + b[4]

RECURSIVE AndN(_, _, _)
\* a & b of two n-bit naturals
AndN(a, b, n) ==
  IF n = 0 THEN 0
  ELSE (a % 2) * (b % 2) + 2 * AndN(a \div 2, b \div 2, n - 1)

And32(x, y) == Word([k \in 1 .. 4 |-> AndN(Bytes(x)[k], Bytes(y)[k], 8)])

Or32(x, y) ==
  Word([k \in 1 .. 4 |->
          Bytes(x)[k] + Bytes(y)[k] - AndN(Bytes(x)[k], Bytes(y)[k], 8)])

\* ~x
Not32(x) == -1 - x

\* AC_RAM_END of the generated mips_parms.H (5M of memory)
AC_RAM_END == 5242880
DEFAULT_STACK_SIZE == 262144
Ra == 31
Sp == 29

\* address the loader leaves in ac_pc
ac_start_addr == 0

\* ac_behavior(begin), for the first processor started
begin ==
  [RB |-> [r \in 0 .. 31 |-> IF r = Sp THEN AC_RAM_END - 1024 - 0 * DEFAULT_STACK_SIZE
                                      ELSE 0],
   hi |-> 0,
   lo |-> 0,
   ac_pc |-> ac_start_addr,
   npc |-> Add32(ac_start_addr, 4),
   DM |-> << >>,
   status |-> "running",
   wrote_npc |-> FALSE]

\* DM is a byte-addressed big-endian memory; a byte never written is zero
DM_byte(c, a) == IF a \in DOMAIN c.DM THEN c.DM[a] ELSE 0

\* DM.read: the word held in the four bytes from address a
DM_read(c, a) ==
  Word([k \in 1 .. 4 |-> DM_byte(c, Add32(a, k - 1))])

\* DM.write
DM_write(c, a, v) ==
  LET at == { Add32(a, k - 1) : k \in 1 .. 4 } IN
  [c EXCEPT !.DM =
     [x \in (DOMAIN c.DM) \cup at |->
        IF x \in at THEN Bytes(v)[(CHOOSE k \in 1 .. 4 : Add32(a, k - 1) = x)]
                    ELSE c.DM[x]]]

setRB(c, r, v) == [c EXCEPT !.RB[r] = v]

set_npc(c, v) == [c EXCEPT !.npc = v, !.wrote_npc = TRUE]

\* the target taken from the address of the branch itself
branch_target_from_branch(c, i) == Add32(Add32(c.ac_pc, -4), i.imm * 4)

\* ac_pc + (imm << 2)
branch_target(c, i) == Add32(c.ac_pc, i.imm * 4)

\* the value (1 << 32) or (0xFFFFFFFF << 32) style shifts leave behind: a
\* shift by the width of the type is undefined, the hardware shifters give
\* either the unshifted operand (count taken modulo 32) or zero
ShlByWidth(x) == {x, 0}

\* `char` is signed on the host
lb(c, i) ==
  LET address == Add32(c.RB[i.rs], i.imm)
      offset == address % 4
      byte == And32(Shr32(DM_read(c, address - offset), (3 - offset) * 8), 255)
  IN setRB(c, i.rt, IF byte >= 128 THEN byte - 256 ELSE byte)

lbu(c, i) ==
  LET address == Add32(c.RB[i.rs], i.imm)
      offset == address % 4
      byte == And32(Shr32(DM_read(c, address - offset), (3 - offset) * 8), 255)
  IN setRB(c, i.rt, byte)

lh(c, i) ==
  LET address == Add32(c.RB[i.rs], i.imm)
      offset == (address % 4) \div 2
      half == And32(Shr32(DM_read(c, address - (address % 4)), (1 - offset) * 16), 65535)
  IN setRB(c, i.rt, IF half >= 32768 THEN half - 65536 ELSE half)

lhu(c, i) ==
  LET address == Add32(c.RB[i.rs], i.imm)
      offset == (address % 4) \div 2
      half == And32(Shr32(DM_read(c, address - (address % 4)), (1 - offset) * 16), 65535)
  IN setRB(c, i.rt, half)

lw(c, i) == setRB(c, i.rt, DM_read(c, Add32(c.RB[i.rs], i.imm)))

lwl(c, i) ==
  LET addr == Add32(c.RB[i.rs], i.imm)
      offset == (addr % 4) * 8
      data == Shl32(DM_read(c, addr - (addr % 4)), offset)
  IN setRB(c, i.rt, Or32(data, And32(c.RB[i.rt], Add32(Shl32(1, offset), -1))))

\* the set of outcomes: 0xFFFFFFFF << (32 - offset) is a shift by 32 when
\* offset = 0
lwr(c, i) ==
  LET addr == Add32(c.RB[i.rs], i.imm)
      offset == (3 - (addr % 4)) * 8
      data == Shr32(DM_read(c, addr - (addr % 4)), offset)
      masks == IF offset = 0 THEN ShlByWidth(-1) ELSE {Shl32(-1, 32 - offset)}
  IN { setRB(c, i.rt, Or32(data, And32(c.RB[i.rt], mask))) : mask \in masks }

\* sb with the lanes numbered from the least significant byte
sb_little_endian(c, i) ==
  LET address == Add32(c.RB[i.rs], i.imm)
      offset_ammount == (address % 4) * 8
      byte == And32(c.RB[i.rt], 255)
      data == Or32(And32(DM_read(c, address - (address % 4)),
                         Not32(Shl32(255, offset_ammount))),
                   Shl32(byte, offset_ammount))
  IN DM_write(c, address - (address % 4), data)

sb(c, i) ==
  LET address == Add32(c.RB[i.rs], i.imm)
      offset_ammount == (3 - (address % 4)) * 8
      byte == And32(c.RB[i.rt], 255)
      data == Or32(And32(DM_read(c, address - (address % 4)),
                         Not32(Shl32(255, offset_ammount))),
                   Shl32(byte, offset_ammount))
  IN DM_write(c, address - (address % 4), data)

sh(c, i) ==
  LET address == Add32(c.RB[i.rs], i.imm)
      offset_ammount == (1 - ((address % 4) \div 2)) * 16
      half == And32(c.RB[i.rt], 65535)
      data == Or32(And32(DM_read(c, address - (address % 4)),
                         Not32(Shl32(65535, offset_ammount))),
                   Shl32(half, offset_ammount))
  IN DM_write(c, address - (address % 4), data)

sw(c, i) == DM_write(c, Add32(c.RB[i.rs], i.imm), c.RB[i.rt])

\* the set of outcomes: 0xFFFFFFFF << (32 - offset) is a shift by 32 when
\* offset = 0
swl(c, i) ==
  LET addr == Add32(c.RB[i.rs], i.imm)
      offset == (addr % 4) * 8
      data == Shr32(c.RB[i.rt], offset)
      masks == IF offset = 0 THEN ShlByWidth(-1) ELSE {Shl32(-1, 32 - offset)}
  IN { DM_write(c, addr - (addr % 4),
                Or32(data, And32(DM_read(c, addr - (addr % 4)), mask))) :
       mask \in masks }

swr(c, i) ==
  LET addr == Add32(c.RB[i.rs], i.imm)
      offset == (3 - (addr % 4)) * 8
      data == Shl32(c.RB[i.rt], offset)
  IN DM_write(c, addr - (addr % 4),
              Or32(data, And32(DM_read(c, addr - (addr % 4)),
                               Add32(Shl32(1, offset), -1))))

\* the overflow test reads RB[rs] and RB[rt] after RB[rt] was assigned
addi(c, i) ==
  LET c1 == setRB(c, i.rt, Add32(c.RB[i.rs], i.imm)) IN
  IF (SignBit(c1.RB[i.rs]) = SignBit(i.imm)) /\
     (SignBit(i.imm) # SignBit(c1.RB[i.rt]))
    THEN [c1 EXCEPT !.status = "exited"]
    ELSE c1

addiu(c, i) == setRB(c, i.rt, Add32(c.RB[i.rs], i.imm))

slti(c, i) == setRB(c, i.rt, IF c.RB[i.rs] < i.imm THEN 1 ELSE 0)

sltiu(c, i) == setRB(c, i.rt, IF ULt(c.RB[i.rs], i.imm) THEN 1 ELSE 0)

\* imm << 16
lui(c, i) == setRB(c, i.rt, Shl32(i.imm, 16))

\* the overflow test reads the registers after RB[rd] was assigned
add(c, i) ==
  LET c1 == setRB(c, i.rd, Add32(c.RB[i.rs], c.RB[i.rt])) IN
  IF (SignBit(c1.RB[i.rs]) = SignBit(c1.RB[i.rd])) /\
     (SignBit(c1.RB[i.rd]) # SignBit(c1.RB[i.rt]))
    THEN [c1 EXCEPT !.status = "exited"]
    ELSE c1

addu(c, i) == setRB(c, i.rd, Add32(c.RB[i.rs], c.RB[i.rt]))

slt(c, i) == setRB(c, i.rd, IF c.RB[i.rs] < c.RB[i.rt] THEN 1 ELSE 0)

sltu(c, i) == setRB(c, i.rd, IF ULt(c.RB[i.rs], c.RB[i.rt]) THEN 1 ELSE 0)

sll(c, i) == setRB(c, i.rd, Shl32(c.RB[i.rt], i.shamt))

\* C++ signed division (quotient truncated toward zero) for a divisor > 0
SDivPos(a, b) ==
  LET q == IF (a % b = 0) \/ (a >= 0) THEN a \div b ELSE (a \div b) + 1
  IN <<q, a - q * b>>

\* <<quotient, remainder>> of the C++ signed division, b # 0 and not
\* INT_MIN / -1
SDiv(a, b) ==
  IF b > 0 THEN SDivPos(a, b)
  ELSE IF b = MinInt32 THEN (IF a = MinInt32 THEN <<1, 0>> ELSE <<0, a>>)
  ELSE <<-(SDivPos(a, -b)[1]), SDivPos(a, -b)[2]>>

\* <<quotient, remainder>> of the C++ unsigned division, b # 0
UDiv(a, b) ==
  IF b < 0 THEN (IF ULt(a, b) THEN <<0, a>> ELSE <<1, a - b>>)
  ELSE IF a >= 0 THEN <<a \div b, a % b>>
  ELSE LET h == (a - MinInt32) \div 2 + 1073741824
           l == (a - MinInt32) % 2
           q1 == h \div b
           r1 == h % b
           carry == r1 >= b - r1 - l
       IN <<Add32(Add32(q1, q1), IF carry THEN 1 ELSE 0),
            IF carry THEN r1 - (b - r1 - l) ELSE 2 * r1 + l>>

\* what an integer division the language leaves undefined (divisor zero,
\* INT_MIN / -1) can do: the host traps and the process dies, or the
\* divider delivers quotient q and the remainder a - q * b
UndefinedDivision(c, a, q) ==
  { [c EXCEPT !.status = "crashed"], [c EXCEPT !.lo = q, !.hi = a] }

\* the set of outcomes
div(c, i) ==
  LET a == c.RB[i.rs]
      b == c.RB[i.rt]
  IN IF b = 0 THEN UndefinedDivision(c, a, 0)
     ELSE IF a = MinInt32 /\ b = -1 THEN UndefinedDivision(c, 0, MinInt32)
     ELSE { [c EXCEPT !.lo = SDiv(a, b)[1], !.hi = SDiv(a, b)[2]] }

\* the set of outcomes
divu(c, i) ==
  LET a == c.RB[i.rs]
      b == c.RB[i.rt]
  IN IF b = 0 THEN UndefinedDivision(c, a, 0)
     ELSE { [c EXCEPT !.lo = UDiv(a, b)[1], !.hi = UDiv(a, b)[2]] }

mfhi(c, i) == setRB(c, i.rd, c.hi)
mthi(c, i) == [c EXCEPT !.hi = c.RB[i.rs]]
mflo(c, i) == setRB(c, i.rd, c.lo)
mtlo(c, i) == [c EXCEPT !.lo = c.RB[i.rs]]

\* (ac_pc & 0xF0000000) | (addr << 2)
jump_target(c, i) == Top4(c.ac_pc) + i.addr * 4

j(c, i) == set_npc(c, jump_target(c, i))

jal(c, i) == set_npc(setRB(c, Ra, Add32(c.ac_pc, 4)), jump_target(c, i))

jr(c, i) == set_npc(c, c.RB[i.rs])

jalr(c, i) ==
  LET c1 == set_npc(c, c.RB[i.rs]) IN
  setRB(c1, IF i.rd = 0 THEN Ra ELSE i.rd, Add32(c.ac_pc, 4))

beq(c, i) == IF c.RB[i.rs] = c.RB[i.rt] THEN set_npc(c, branch_target(c, i)) ELSE c

bne(c, i) == IF c.RB[i.rs] # c.RB[i.rt] THEN set_npc(c, branch_target(c, i)) ELSE c

blez(c, i) ==
  IF (c.RB[i.rs] = 0) \/ SignBit(c.RB[i.rs])
    THEN set_npc(c, branch_target(c, i)) ELSE c

bgtz(c, i) ==
  IF ~SignBit(c.RB[i.rs]) /\ (c.RB[i.rs] # 0)
    THEN set_npc(c, branch_target(c, i)) ELSE c

bltz(c, i) == IF SignBit(c.RB[i.rs]) THEN set_npc(c, branch_target(c, i)) ELSE c

bgez(c, i) == IF ~SignBit(c.RB[i.rs]) THEN set_npc(c, branch_target(c, i)) ELSE c

bltzal(c, i) ==
  LET c1 == setRB(c, Ra, Add32(c.ac_pc, 4)) IN
  IF SignBit(c1.RB[i.rs]) THEN set_npc(c1, branch_target(c1, i)) ELSE c1

bgezal(c, i) ==
  LET c1 == setRB(c, Ra, Add32(c.ac_pc, 4)) IN
  IF ~SignBit(c1.RB[i.rs]) THEN set_npc(c1, branch_target(c1, i)) ELSE c1

\* stop(): the driver retires nothing more
sys_call(c, i) == [c EXCEPT !.status = "stopped"]

\* exit(EXIT_FAILURE)
instr_break(c, i) == [c EXCEPT !.status = "exited"]

\* The decoder: the behaviour run for a record, by the MIPS-I encoding the
\* analyzer's own tables use (op, func, and rt for the op = 1 branches)
Execute(c, i) ==
  CASE i.type = kR /\ i.func = 0 -> sll(c, i)
    [] i.type = kR /\ i.func = 8 -> jr(c, i)
    [] i.type = kR /\ i.func = 9 -> jalr(c, i)
    [] i.type = kR /\ i.func = 12 -> sys_call(c, i)
    [] i.type = kR /\ i.func = 13 -> instr_break(c, i)
    [] i.type = kR /\ i.func = 16 -> mfhi(c, i)
    [] i.type = kR /\ i.func = 17 -> mthi(c, i)
    [] i.type = kR /\ i.func = 18 -> mflo(c, i)
    [] i.type = kR /\ i.func = 19 -> mtlo(c, i)
    [] i.type = kR /\ i.func = 32 -> add(c, i)
    [] i.type = kR /\ i.func = 33 -> addu(c, i)
    [] i.type = kR /\ i.func = 42 -> slt(c, i)
    [] i.type = kR /\ i.func = 43 -> sltu(c, i)
    [] i.type = kI /\ i.op = 1 /\ i.rt = 0 -> bltz(c, i)
    [] i.type = kI /\ i.op = 1 /\ i.rt = 1 -> bgez(c, i)
    [] i.type = kI /\ i.op = 1 /\ i.rt = 16 -> bltzal(c, i)
    [] i.type = kI /\ i.op = 1 /\ i.rt = 17 -> bgezal(c, i)
    [] i.type = kI /\ i.op = 4 -> beq(c, i)
    [] i.type = kI /\ i.op = 5 -> bne(c, i)
    [] i.type = kI /\ i.op = 6 -> blez(c, i)
    [] i.type = kI /\ i.op = 7 -> bgtz(c, i)
    [] i.type = kI /\ i.op = 8 -> addi(c, i)
    [] i.type = kI /\ i.op = 9 -> addiu(c, i)
    [] i.type = kI /\ i.op = 10 -> slti(c, i)
    [] i.type = kI /\ i.op = 11 -> sltiu(c, i)
    [] i.type = kI /\ i.op = 15 -> lui(c, i)
    [] i.type = kI /\ i.op = 32 -> lb(c, i)
    [] i.type = kI /\ i.op = 33 -> lh(c, i)
    [] i.type = kI /\ i.op = 34 -> lwl(c, i)
    [] i.type = kI /\ i.op = 35 -> lw(c, i)
    [] i.type = kI /\ i.op = 36 -> lbu(c, i)
    [] i.type = kI /\ i.op = 37 -> lhu(c, i)
    [] i.type = kI /\ i.op = 40 -> sb(c, i)
    [] i.type = kI /\ i.op = 41 -> sh(c, i)
    [] i.type = kI /\ i.op = 43 -> sw(c, i)
    [] i.type = kI /\ i.op = 46 -> swr(c, i)
    [] i.type = kJ /\ i.op = 2 -> j(c, i)
    [] i.type = kJ /\ i.op = 3 -> jal(c, i)

\* every state the behaviour of a record can leave: one, but for the
\* behaviours whose C++ has undefined cases
Behaviours(c, i) ==
  IF i.type = kR /\ i.func = 26 THEN div(c, i)
  ELSE IF i.type = kR /\ i.func = 27 THEN divu(c, i)
  ELSE IF i.type = kI /\ i.op = 38 THEN lwr(c, i)
  ELSE IF i.type = kI /\ i.op = 42 THEN swl(c, i)
  ELSE {Execute(c, i)}

\* ac_behavior(instruction): the analyzer side
instruction_global(g, c) ==
  [g EXCEPT !.number_of_instructions = @ + 1, !.pc_addr = c.npc]

\* ac_behavior(instruction): ac_pc = npc; npc = ac_pc + 4
instruction_cpu(c) ==
  [c EXCEPT !.ac_pc = c.npc, !.npc = Add32(c.npc, 4), !.wrote_npc = FALSE]

-----------------------------------------------------------------------------
(* The instruction words the driver may fetch *)

NOP == Type_R(0, 0, 0, 0, 0)

Program ==
  { NOP,
    Type_R(1, 2, 3, 0, 33),       \* addu  r3, r1, r2
    Type_R(0, 0, 0, 0, 12),       \* syscall
    Type_I(9, 0, 1, 1),           \* addiu r1, r0, 1
    Type_I(9, 0, 2, -1),          \* addiu r2, r0, -1
    Type_I(35, 0, 1, 0),          \* lw    r1, 0(r0)
    Type_I(4, 1, 2, 2),           \* beq   r1, r2, +2
    Type_I(5, 1, 2, -2),          \* bne   r1, r2, -2
    Type_I(6, 1, 0, -1),          \* blez  r1, -1
    Type_I(7, 2, 0, 3),           \* bgtz  r2, +3
    Type_I(1, 2, 0, 2),           \* bltz  r2, +2
    Type_I(1, 2, 1, -2),          \* bgez  r2, -2
    Type_J(2, 4) }                \* j     16

-----------------------------------------------------------------------------
(* The state machine *)

Init ==
  /\ global = variables
  /\ cpu = begin
  /\ instr = NoInst
  /\ taken = 0

\* One retirement: ac_behavior(instruction), then the format behaviour
\* (push and testSuperscalar), then the behaviour of the instruction itself
Step(i) ==
  /\ cpu.status = "running"
  /\ global' = testSuperscalar(push(instruction_global(global, cpu), i))
  /\ cpu' \in Behaviours(instruction_cpu(cpu), i)
  /\ instr' = i
  /\ taken' = actual_branch_taken_ret(i)

\* a retirement of a run of at most MaxRetired instructions
Retire(i) ==
  /\ global.number_of_instructions < MaxRetired
  /\ Step(i)

Retire_R == \E i \in Program : i.type = kR /\ Retire(i)
Retire_I == \E i \in Program : i.type = kI /\ Retire(i)
Retire_J == \E i \in Program : i.type = kJ /\ Retire(i)

Next == Retire_R \/ Retire_I \/ Retire_J

Spec == Init /\ [][Next]_vars

-----------------------------------------------------------------------------
(* Properties *)

\* beq, bne, blez, bgtz, bltz, bgez
isCondBranch(i) ==
  i.type = kI /\ (i.op \in {4, 5, 6, 7} \/ (i.op = 1 /\ i.rt \in {0, 1}))

\* C1: for every retired conditional branch the taken-bit handed to the
\* predictors (actual_branch_taken = 2) equals the interpreter's decision
\* (the behaviour wrote the branch target into npc).
C1_TakenBitIsInterpreterDecision ==
  isCondBranch(instr) => ((taken = 2) <=> cpu.wrote_npc)

\* C2: on every conditional branch static_mispreds grows by exactly 1 iff
\* the prediction "taken iff imm < 0" differs from the taken-bit, else by 0.
C2_StaticPredictsBackwardTaken ==
  [][isCondBranch(instr') =>
       global'.static_wrong_predictions - global.static_wrong_predictions =
         (IF (instr'.imm < 0) # (taken' = 2) THEN 1 ELSE 0)]_vars

\* C3: on every conditional branch sat_mispreds grows by 1 iff the taken-bit
\* differs from (old sat_state >= 2), the counter then moves to min(old+1, 3)
\* if taken and max(old-1, 0) if not; the counter is 2 before the first
\* branch, which is therefore mispredicted iff it is not taken.
C3_SaturatingReadsBeforeUpdate ==
  [][isCondBranch(instr') =>
       LET old == global.saturating_stage
           tk == (taken' = 2)
       IN /\ global'.saturating_wrong_predictions =
               global.saturating_wrong_predictions +
                 (IF tk # (old >= 2) THEN 1 ELSE 0)
          /\ global'.saturating_stage =
               (IF tk THEN (IF old + 1 > 3 THEN 3 ELSE old + 1)
                      ELSE (IF old - 1 < 0 THEN 0 ELSE old - 1))
          /\ (global.total_number_of_branches = 0 =>
                /\ old = 2
                /\ (global'.saturating_wrong_predictions = 1 <=> ~tk))]_vars

\* C3 witness: three branches were pushed, none taken; only the first was
\* mispredicted (counter 2), and the last one found the counter clamped at 0.
C3_Witness ==
  /\ isCondBranch(instr) /\ taken = 1
  /\ global.total_number_of_branches = 3
  /\ global.saturating_stage = 0
  /\ global.saturating_wrong_predictions = 1

\* C4: sat_state, every two-level counter and the two-level history stay
\* in 0..3 in every reachable state.
C4_PredictorStateInRange ==
  /\ global.saturating_stage \in 0 .. 3
  /\ \A h \in DOMAIN global.two_level_stages :
       global.two_level_stages[h] \in 0 .. 3
  /\ DOMAIN global.two_level_stages = 0 .. 3
  /\ global.two_level_history \in 0 .. 3

\* C4 witness: counters sit at both ends of the range after clamped updates
\* and the history register holds its largest value.
C4_Witness ==
  /\ global.total_number_of_branches >= 3
  /\ global.two_level_history = 3
  /\ \E h \in 0 .. 3 : global.two_level_stages[h] = 3
  /\ global.saturating_stage = 3

\* the three misprediction counters against the number of branches
C5_within(g) ==
  /\ g.static_wrong_predictions <= g.total_number_of_branches
  /\ g.saturating_wrong_predictions <= g.total_number_of_branches
  /\ g.two_level_wrong_predictions <= g.total_number_of_branches
  /\ g.static_wrong_predictions + g.saturating_wrong_predictions +
       g.two_level_wrong_predictions <= 3 * g.total_number_of_branches

\* counter f grows from g to h by 0, or by 1 if a branch was counted
C5_step(g, h, f) ==
  h[f] - g[f] \in 0 .. (h.total_number_of_branches - g.total_number_of_branches)

\* C5: each predictor's misprediction counter is at most total_branches
\* (so the sum is at most 3 x total_branches) and grows by at most 1 per
\* counted branch, and not at all without one.
C5_MispredictionsBounded ==
  /\ C5_within(global)
  /\ [][/\ C5_within(global')
        /\ global'.total_number_of_branches - global.total_number_of_branches
             \in 0 .. 1
        /\ C5_step(global, global', "static_wrong_predictions")
        /\ C5_step(global, global', "saturating_wrong_predictions")
        /\ C5_step(global, global', "two_level_wrong_predictions")]_vars

\* C5 witness: several branches, every one of them mispredicted by the
\* static predictor, and the other two predictors have mispredicted too.
C5_Witness ==
  /\ global.total_number_of_branches >= 2
  /\ global.static_wrong_predictions = global.total_number_of_branches
  /\ global.saturating_wrong_predictions >= 1
  /\ global.two_level_wrong_predictions >= 1

\* C6 (as stated): static_mispreds + sat_mispreds <= total_branches and
\* two_lvl_mispreds <= total_branches in every reachable state.
C6_StaticPlusSatWithinBranches ==
  /\ global.static_wrong_predictions + global.saturating_wrong_predictions
       <= global.total_number_of_branches
  /\ global.two_level_wrong_predictions <= global.total_number_of_branches

\* C6 (amended): static_mispreds + sat_mispreds <= 2 x total_branches and
\* two_lvl_mispreds <= total_branches in every reachable state.
C6_StaticPlusSatWithinTwiceBranches ==
  /\ global.static_wrong_predictions + global.saturating_wrong_predictions
       <= 2 * global.total_number_of_branches
  /\ global.two_level_wrong_predictions <= global.total_number_of_branches

\* C6 witness: one branch mispredicted by both the static and the
\* saturating predictor, so the two counters together exceed the branches.
C6_Witness ==
  /\ global.total_number_of_branches >= 1
  /\ global.static_wrong_predictions + global.saturating_wrong_predictions
       = 2 * global.total_number_of_branches
  /\ global.two_level_wrong_predictions = global.total_number_of_branches

\* C7: for every register index i in 0..33, last_write[i] never decreases
\* and last_write[i] <= retired after every push (NOPs included).
C7_LastWriteMonotoneAndBounded ==
  /\ \A r \in 0 .. 33 : global.last_write[r] <= global.number_of_instructions
  /\ [][\A r \in 0 .. 33 :
          /\ global'.last_write[r] >= global.last_write[r]
          /\ global'.last_write[r] <= global'.number_of_instructions]_vars

\* C8: retiring one encoded NOP increases every last_write[] entry by
\* exactly one, so retired - last_write[r] is what it was before the NOP.
C8_NopShiftsLastWriteByOne ==
  [][isNop(instr') =>
       \A r \in 0 .. 33 :
         /\ global'.last_write[r] = global.last_write[r] + 1
         /\ global'.number_of_instructions - global'.last_write[r] =
              global.number_of_instructions - global.last_write[r]]_vars

\* C9: retiring an encoded NOP changes nothing of the analysis but retired,
\* nops and last_write: hazard counts, predictor state and counters,
\* total_branches, the window, super_pairs and the latch are unchanged.
C9_NopContributesNothing ==
  [][isNop(instr') =>
       /\ global'.number_of_data_hazards = global.number_of_data_hazards
       /\ global'.number_of_control_hazards = global.number_of_control_hazards
       /\ global'.saturating_stage = global.saturating_stage
       /\ global'.two_level_stages = global.two_level_stages
       /\ global'.two_level_history = global.two_level_history
       /\ global'.static_wrong_predictions = global.static_wrong_predictions
       /\ global'.saturating_wrong_predictions =
            global.saturating_wrong_predictions
       /\ global'.two_level_wrong_predictions =
            global.two_level_wrong_predictions
       /\ global'.total_number_of_branches = global.total_number_of_branches
       /\ global'.latest_instructions = global.latest_instructions
       /\ global'.ss = global.ss]_vars

\* C10: no retired instruction is a member of more than one counted pair.
\* Every counted pair is made of two window records, i.e. of two retired
\* non-NOP instructions, so the claim bounds the pair counter by half the
\* number of non-NOP retirements.
C10_NoInstructionInTwoPairs ==
  2 * global.ss.ssInstCount
    <= global.number_of_instructions - global.number_of_nops

-----------------------------------------------------------------------------
(* The general registers the behaviour of a record reads and assigns *)

\* registers whose RB[..] value the behaviour uses
RB_read(i) ==
  IF i.type = kR THEN
    IF i.func \in {0, 2, 3} THEN {i.rt}                       \* sll srl sra
    ELSE IF i.func \in {8, 9, 17, 19} THEN {i.rs}             \* jr jalr mthi mtlo
    ELSE IF i.func \in {12, 13, 16, 18} THEN {}               \* syscall break mfhi mflo
    ELSE {i.rs, i.rt}
  ELSE IF i.type = kI THEN
    IF i.op \in {1, 6, 7} THEN {i.rs}                         \* bltz.. blez bgtz
    ELSE IF i.op = 15 THEN {}                                 \* lui
    ELSE IF i.op \in {4, 5, 34, 38, 40, 41, 42, 43, 46}       \* beq bne lwl lwr, stores
      THEN {i.rs, i.rt}
    ELSE {i.rs}
  ELSE {}

\* registers the behaviour assigns
RB_written(i) ==
  IF i.type = kR THEN
    IF i.func \in {8, 12, 13, 17, 19, 24, 25, 26, 27} THEN {} \* jr syscall break mthi mtlo mult div
    ELSE IF i.func = 9 THEN {IF i.rd = 0 THEN Ra ELSE i.rd}   \* jalr
    ELSE {i.rd}
  ELSE IF i.type = kI THEN
    IF i.op = 1 THEN (IF i.rt \in {16, 17} THEN {Ra} ELSE {}) \* bltzal bgezal
    ELSE IF i.op \in {4, 5, 6, 7, 40, 41, 42, 43, 46} THEN {} \* branches, stores
    ELSE {i.rt}
  ELSE IF i.op = 3 THEN {Ra} ELSE {}                          \* jal

-----------------------------------------------------------------------------
(* A stream of jumps-and-link around users of the link register *)

PairProgram ==
  { NOP,
    Type_R(31, 1, 3, 0, 33),      \* addu  r3, r31, r1
    Type_R(1, 0, 0, 0, 9),        \* jalr  r1        (links into r31)
    Type_R(1, 0, 2, 0, 9),        \* jalr  r2, r1
    Type_I(9, 0, 31, 1),          \* addiu r31, r0, 1
    Type_I(9, 0, 2, 1),           \* addiu r2, r0, 1
    Type_I(35, 2, 1, 0),          \* lw    r1, 0(r2)
    Type_I(43, 1, 3, 0),          \* sw    r3, 0(r1)
    Type_J(3, 4) }                \* jal   16

Pair_R == \E i \in PairProgram : i.type = kR /\ Retire(i)
Pair_I == \E i \in PairProgram : i.type = kI /\ Retire(i)
Pair_J == \E i \in PairProgram : i.type = kJ /\ Retire(i)

PairNext == Pair_R \/ Pair_I \/ Pair_J

PairSpec == Init /\ [][PairNext]_vars

\* C11: whenever a retirement increments the pair count, the two newest
\* window records (older, newer) have no read-after-write, write-after-read
\* or write-after-write conflict on any general register their behaviours
\* read or assign, the link register of jal / jalr included.
C11_CountedPairsAreConflictFree ==
  [][ global'.ss.ssInstCount = global.ss.ssInstCount + 1 =>
        LET newer == global'.latest_instructions[1]
            older == global'.latest_instructions[2]
        IN /\ RB_written(older) \cap RB_read(newer) = {}
           /\ RB_read(older) \cap RB_written(newer) = {}
           /\ RB_written(older) \cap RB_written(newer) = {} ]_vars

-----------------------------------------------------------------------------
(* A stream of loads, users of the loaded register, and writers the hazard
   detector has to date *)

HazardProgram ==
  { NOP,
    Type_R(1, 1, 2, 0, 33),       \* addu  r2, r1, r1
    Type_R(0, 0, 3, 1, 0),        \* sll   r3, r0, 1
    Type_I(9, 0, 3, 1),           \* addiu r3, r0, 1
    Type_I(35, 0, 1, 0),          \* lw    r1, 0(r0)
    Type_I(35, 0, 0, 0),          \* lw    r0, 0(r0)
    Type_I(42, 0, 1, 0),          \* swl   r1, 0(r0)
    Type_I(4, 2, 0, 2) }          \* beq   r2, r0, +2

Hazard_R == \E i \in HazardProgram : i.type = kR /\ Retire(i)
Hazard_I == \E i \in HazardProgram : i.type = kI /\ Retire(i)

HazardNext == Hazard_R \/ Hazard_I

HazardSpec == Init /\ [][HazardNext]_vars

\* lb, lbu, lh, lhu, lw
isLoad(i) == i.type = kI /\ i.op \in {32, 33, 35, 36, 37}

\* the conditional branches and jr / jalr: their hazards are control hazards
isControl(i) ==
  \/ i.type = kI /\ i.op \in {1, 4, 5, 6, 7}
  \/ i.type = kR /\ i.func \in {8, 9}

\* C12: when the instruction retired just before is a load with rt # 0 and
\* the instruction now retired is not a NOP and reads that register, the
\* hazard counter of its class (control for branches and jr / jalr, data
\* otherwise) grows by exactly 1 at each of the three depths.
C12_LoadUseIsCounted ==
  [][ isLoad(instr) /\ instr.rt # 0 /\ ~isNop(instr') /\ instr.rt \in RB_read(instr') =>
        \A s \in {k5, k7, k13} :
          IF isControl(instr')
            THEN global'.number_of_control_hazards[s] =
                   global.number_of_control_hazards[s] + 1
            ELSE global'.number_of_data_hazards[s] =
                   global.number_of_data_hazards[s] + 1 ]_vars

\* no load among the newest `depth` records of the window
C13_noLoadAmong(win, depth) ==
  \A k \in 1 .. Min(depth, Len(win)) : ~isLoad(win[k])

\* C13: under forwarding, at depth s (5, 7, 13 stages) a retirement leaves
\* number_of_data_hazards[s] unchanged when none of the 1, 2, 3 newest window
\* records is a load; and while no load has been retired at all the three
\* data-hazard counters are zero.
C13_NoLoadNoDataHazard ==
  /\ [](C13_noLoadAmong(global.latest_instructions, kNumberOfStoredInstructions) /\
        global.number_of_instructions <= kNumberOfStoredInstructions =>
          \A s \in {k5, k7, k13} : global.number_of_data_hazards[s] = 0)
  /\ [][ \A s \in {k5, k7, k13} :
           C13_noLoadAmong(global.latest_instructions, s + 1) =>
             global'.number_of_data_hazards[s] = global.number_of_data_hazards[s] ]_vars

\* lw r1; addiu r3; addu r2,r1,r1: the user of r1 has a load two records
\* back, which counts at 7 stages and is outside the lookback at 5 stages
C13_Witness ==
  /\ Len(global.latest_instructions) = 3
  /\ global.latest_instructions[1] = Type_R(1, 1, 2, 0, 33)
  /\ ~isLoad(global.latest_instructions[2])
  /\ isLoad(global.latest_instructions[3])
  /\ global.number_of_data_hazards[k5] = 0
  /\ global.number_of_data_hazards[k7] = 1

\* C14: register 0 never contributes to a hazard: at each depth s, when every
\* register other than r0 that the retired instruction reads was last
\* written more than hazard_table[s] retirements ago, neither hazard counter
\* of that depth grows, whatever last_write[0] holds.
C14_RegisterZeroNeverCounts ==
  [][ \A s \in {k5, k7, k13} :
        (\A r \in RB_read(instr') \ {0} :
           global'.number_of_instructions - global.last_write[r]
             > hazard_table(is_fowarding, s)) =>
          /\ global'.number_of_data_hazards[s] = global.number_of_data_hazards[s]
          /\ global'.number_of_control_hazards[s] = global.number_of_control_hazards[s]
    ]_vars

\* the last_write slots a record is the writer of: rd for R-type, rt for
\* I-type, HI / LO for multiply, divide, mthi and mtlo; none for a NOP, a
\* J-type or an instruction of instructions_dont_write
C15_writes(i) ==
  IF isNop(i) \/ i.type = kJ \/ <<i.op, i.func>> \in instructions_dont_write THEN {}
  ELSE IF i.type = kR /\ i.func \in {24, 25, 26, 27} THEN {32, 33}
  ELSE IF i.type = kR /\ i.func = 17 THEN {32}
  ELSE IF i.type = kR /\ i.func = 19 THEN {33}
  ELSE IF i.type = kR THEN {i.rd}
  ELSE {i.rt}

\* C15: a non-NOP record that writes a register is, once pushed, the most
\* recent writer of that register, and last_write of the register is the
\* retired index at which the record was pushed (shifts whose source is r0
\* included).
C15_LastWriteIsPushIndex ==
  [][ \A r \in C15_writes(instr') :
        global'.last_write[r] = global'.number_of_instructions ]_vars

-----------------------------------------------------------------------------
(* Arithmetic on operands at the edges of the 32-bit range *)

Operands == {0, 1, -1, MaxInt32, MinInt32}

AluProgram ==
  { Type_R(1, 2, 3, 0, 32),       \* add   r3, r1, r2
    Type_R(1, 2, 1, 0, 32),       \* add   r1, r1, r2
    Type_R(1, 2, 0, 0, 26),       \* div   r1, r2
    Type_R(1, 2, 0, 0, 27),       \* divu  r1, r2
    Type_R(0, 0, 0, 0, 16),       \* mfhi  r0
    Type_I(8, 1, 1, 1),           \* addi  r1, r1, 1
    Type_I(8, 1, 3, -1),          \* addi  r3, r1, -1
    Type_I(8, 1, 0, 5) }          \* addi  r0, r1, 5

\* the registers r1 and r2 hold operands some earlier code computed
AluInit ==
  /\ global = variables
  /\ \E a \in Operands : \E b \in Operands :
       cpu = [begin EXCEPT !.RB[1] = a, !.RB[2] = b]
  /\ instr = NoInst
  /\ taken = 0

Alu_R == \E i \in AluProgram : i.type = kR /\ Retire(i)
Alu_I == \E i \in AluProgram : i.type = kI /\ Retire(i)

AluNext == Alu_R \/ Alu_I

AluSpec == AluInit /\ [][AluNext]_vars

\* signed overflow of a + b: operands of one sign, sum of the other
C16_overflows(a, b) ==
  SignBit(a) = SignBit(b) /\ SignBit(Add32(a, b)) # SignBit(a)

\* C16: add and addi end the run with an overflow indication exactly when
\* the two operands (the register values before the instruction, the
\* immediate) have the same sign and the 32-bit sum has the other sign,
\* also when the destination is one of the sources.
C16_OverflowIffSignsDisagree ==
  [][ /\ (instr'.type = kR /\ instr'.func = 32 =>
            (cpu'.status = "exited"
               <=> C16_overflows(cpu.RB[instr'.rs], cpu.RB[instr'.rt])))
      /\ (instr'.type = kI /\ instr'.op = 8 =>
            (cpu'.status = "exited"
               <=> C16_overflows(cpu.RB[instr'.rs], instr'.imm))) ]_vars

\* C17: div and divu retired with R[rt] = 0 neither crash nor end the run.
C17_DivisionByZeroContinues ==
  [][ instr'.type = kR /\ instr'.func \in {26, 27} /\ cpu.RB[instr'.rt] = 0 =>
        cpu'.status = "running" ]_vars

\* C18: register 0 holds zero in every state after begin.
C18_RegisterZeroIsZero == cpu.RB[0] = 0

-----------------------------------------------------------------------------
(* Stores and loads of every width at every alignment *)

\* the words stored: top bit of every lane set, of no lane set, mixed
StoredValues == {-2122124380, 16909060, 8497920}     \* 0x8182F3A4, 0x01020304, 0x0081AB00

\* a test text: each store followed by the load of its width, the two
\* unaligned idioms in both orders
MemProgram ==
  << Type_I(40, 4, 1, 0),         \* sb    r1, 0(r4)
     Type_I(36, 4, 2, 0),         \* lbu   r2, 0(r4)
     Type_I(40, 4, 1, 0),         \* sb    r1, 0(r4)
     Type_I(32, 4, 2, 0),         \* lb    r2, 0(r4)
     Type_I(41, 4, 1, 0),         \* sh    r1, 0(r4)
     Type_I(37, 4, 2, 0),         \* lhu   r2, 0(r4)
     Type_I(41, 4, 1, 0),         \* sh    r1, 0(r4)
     Type_I(33, 4, 2, 0),         \* lh    r2, 0(r4)
     Type_I(43, 4, 1, 0),         \* sw    r1, 0(r4)
     Type_I(35, 4, 2, 0),         \* lw    r2, 0(r4)
     Type_I(42, 4, 1, 0),         \* swl   r1, 0(r4)
     Type_I(46, 4, 1, 3),         \* swr   r1, 3(r4)
     Type_I(34, 4, 2, 0),         \* lwl   r2, 0(r4)
     Type_I(38, 4, 2, 3),         \* lwr   r2, 3(r4)
     Type_I(46, 4, 1, 3),         \* swr   r1, 3(r4)
     Type_I(42, 4, 1, 0),         \* swl   r1, 0(r4)
     Type_I(38, 4, 2, 3),         \* lwr   r2, 3(r4)
     Type_I(34, 4, 2, 0) >>       \* lwl   r2, 0(r4)

\* the text is loaded at address 0; the run is entered at any instruction of
\* it, r1 holds the value to store, r4 an address of any alignment, and the
\* two data words around that address hold earlier data
MemInit ==
  /\ global = variables
  /\ \E v \in StoredValues : \E k \in 0 .. 3 : \E e \in 0 .. (Len(MemProgram) - 1) :
       cpu = DM_write(DM_write([begin EXCEPT !.RB[1] = v, !.RB[4] = 256 + k,
                                             !.ac_pc = 4 * e, !.npc = 4 * e + 4],
                               256, 1432778632),
                      260, 287454020)
  /\ instr = NoInst
  /\ taken = 0

\* the driver fetches the instruction word at ac_pc
Mem_Fetch ==
  /\ cpu.ac_pc \in { 4 * e : e \in 0 .. (Len(MemProgram) - 1) }
  /\ Retire(MemProgram[(cpu.ac_pc \div 4) + 1])

MemNext == Mem_Fetch

MemSpec == MemInit /\ [][MemNext]_vars

\* the newest window records, oldest first, are the given opcodes
C19_retiredLast(ops) ==
  /\ Len(global.latest_instructions) >= Len(ops)
  /\ \A k \in 1 .. Len(ops) :
       global.latest_instructions[Len(ops) + 1 - k].op = ops[k]

C19_low8(v) == Bytes(v)[4]
C19_low16(v) == Bytes(v)[3] * 256 + Bytes(v)[4]

\* C19: a store followed at once by the load of the same width at the same
\* address returns the stored value at every alignment: sb then lbu / lb the
\* low byte of the register (zero- / sign-extended), sh then lhu / lh the low
\* halfword, sw then lw the word, and swl, swr then lwl, lwr the word.
C19_StoreLoadRoundTrip ==
  /\ C19_retiredLast(<<40, 36>>) => cpu.RB[2] = C19_low8(cpu.RB[1])
  /\ C19_retiredLast(<<40, 32>>) =>
       cpu.RB[2] = IF C19_low8(cpu.RB[1]) >= 128 THEN C19_low8(cpu.RB[1]) - 256
                                                ELSE C19_low8(cpu.RB[1])
  /\ C19_retiredLast(<<41, 37>>) => cpu.RB[2] = C19_low16(cpu.RB[1])
  /\ C19_retiredLast(<<41, 33>>) =>
       cpu.RB[2] = IF C19_low16(cpu.RB[1]) >= 32768 THEN C19_low16(cpu.RB[1]) - 65536
                                                   ELSE C19_low16(cpu.RB[1])
  /\ C19_retiredLast(<<43, 35>>) => cpu.RB[2] = cpu.RB[1]
  /\ \A st \in {<<42, 46>>, <<46, 42>>} : \A ld \in {<<34, 38>>, <<38, 34>>} :
       C19_retiredLast(st \o ld) => cpu.RB[2] = cpu.RB[1]

\* swl, swr, lwl, lwr of the word with all lane top bits set at an address
\* that straddles two words, read back whole
C19_Witness ==
  /\ C19_retiredLast(<<42, 46, 34, 38>>)
  /\ cpu.RB[4] % 4 = 1
  /\ cpu.RB[1] < 0
  /\ cpu.RB[2] = cpu.RB[1]

-----------------------------------------------------------------------------
(* Order of retirement around branches and jumps *)

\* j, jal, jr, jalr
isJump(i) == i.type = kJ \/ (i.type = kR /\ i.func \in {8, 9})

\* where a taken branch or jump retired at address A with register file RB
\* sends control
C20_target(i, A, RB) ==
  IF i.type = kJ THEN Top4(Add32(A, 4)) + i.addr * 4
  ELSE IF i.type = kR THEN RB[i.rs]
  ELSE Add32(Add32(A, 4), i.imm * 4)

\* the retirement of a branch or jump fetched at ac_pc: the next instruction
\* retired is the one at ac_pc + 4, the one after it the target when the
\* branch is taken and the one at ac_pc + 8 when it is not
C20_step(c, d, i) ==
  (isCondBranch(i) \/ isJump(i)) =>
    /\ d.ac_pc = Add32(c.ac_pc, 4)
    /\ d.npc = IF d.wrote_npc THEN C20_target(i, c.ac_pc, c.RB)
                              ELSE Add32(c.ac_pc, 8)

\* C20: a taken branch or jump retired at address A is followed by the
\* instruction at A + 4 and then by the one at the target
\* ((A + 4) + (sign_ext(imm) << 2) for a branch); a branch not taken by the
\* instructions at A + 4 and A + 8.
C20_BranchDelayOrdering ==
  [][ cpu'.ac_pc = cpu.npc /\ C20_step(cpu, cpu', instr') ]_vars

\* C20 for a branch or jump that is not itself in the delay slot of a taken
\* branch or jump (npc = A + 4 when it is retired); in every retirement the
\* next instruction is the one at the next-PC the previous one left.
C20_BranchDelayOrderingOutsideDelaySlot ==
  [][ /\ cpu'.ac_pc = cpu.npc
      /\ cpu.npc = Add32(cpu.ac_pc, 4) => C20_step(cpu, cpu', instr') ]_vars

\* beq r1,r2,+2 taken at address 0, its delay slot addu retired at 4, control
\* now at 12
C20_Witness ==
  /\ global.number_of_instructions = 2
  /\ global.latest_instructions = <<Type_R(1, 2, 3, 0, 33), Type_I(4, 1, 2, 2)>>
  /\ cpu.ac_pc = 12
  /\ cpu.npc = 16

-----------------------------------------------------------------------------
(* Streams of branches whose outcome the analyzer reads off the record *)

MaxBranches == 7

BranchProgram ==
  { Type_R(1, 2, 3, 0, 33),       \* addu   r3, r1, r2
    Type_I(4, 1, 2, 2),           \* beq    r1, r2, +2   (analyzer: not taken)
    Type_I(5, 1, 2, 2),           \* bne    r1, r2, +2   (analyzer: taken)
    Type_I(1, 2, 16, 2) }         \* bltzal r2, +2

Branch_R ==
  /\ global.number_of_instructions < MaxBranches
  /\ \E i \in BranchProgram : i.type = kR /\ Step(i)

Branch_I ==
  /\ global.number_of_instructions < MaxBranches
  /\ \E i \in BranchProgram : i.type = kI /\ Step(i)

BranchNext == Branch_R \/ Branch_I

BranchSpec == Init /\ [][BranchNext]_vars

\* the record is one the analyzer hands to the predictors
isPredicted(i) == actual_branch_taken_ret(i) # 0

\* the window records handed to the predictors, newest first
predicted(win) == SelectSeq(win, isPredicted)

\* C21: in a run of branches of one outcome the saturating predictor
\* mispredicts at most the first two: a branch whose two predecessors had
\* its outcome is predicted correctly, whatever the counter held when the
\* run began.
C21_ConstantStreamConverges ==
  [][ taken' # 0 /\
      Len(predicted(global.latest_instructions)) >= 2 /\
      actual_branch_taken_ret(predicted(global.latest_instructions)[1]) = taken' /\
      actual_branch_taken_ret(predicted(global.latest_instructions)[2]) = taken' =>
        global'.saturating_wrong_predictions = global.saturating_wrong_predictions
    ]_vars

\* two not-taken branches bring the counter to 0, then three taken ones:
\* two mispredictions, the third predicted
C21_Witness ==
  /\ global.latest_instructions =
       << Type_I(5, 1, 2, 2), Type_I(5, 1, 2, 2), Type_I(5, 1, 2, 2),
          Type_I(4, 1, 2, 2), Type_I(4, 1, 2, 2) >>
  /\ global.saturating_wrong_predictions = 3
  /\ global.saturating_stage = 3

\* the outcomes, oldest first, alternate taken, not taken, taken, ...
C22_alternates(win) ==
  \A k \in 1 .. Len(predicted(win)) :
    actual_branch_taken_ret(predicted(win)[Len(predicted(win)) + 1 - k])
      = (IF k % 2 = 1 THEN 2 ELSE 1)

\* C22: while the branches retired since begin alternate taken, not taken,
\* taken, ..., the saturating predictor has mispredicted at most half of
\* them: at most k of the first 2k.
C22_AlternationHalfMispredicted ==
  global.number_of_instructions <= kNumberOfStoredInstructions /\
  C22_alternates(global.latest_instructions) =>
    global.saturating_wrong_predictions
      <= Len(predicted(global.latest_instructions)) \div 2

\* six alternating branches, three of them mispredicted
C22_Witness ==
  /\ C22_alternates(global.latest_instructions)
  /\ Len(predicted(global.latest_instructions)) = 6
  /\ global.saturating_wrong_predictions = 3

-----------------------------------------------------------------------------
(* Loops whose branches repeat a pattern of outcomes *)

MaxLoopRetired == 40

\* one loop per pattern of 1 to 4 outcomes, loop number s in 0 .. 29
LoopSlots == 0 .. 29

\* the number of branches in loop s
period(s) == IF s < 2 THEN 1 ELSE IF s < 6 THEN 2 ELSE IF s < 14 THEN 3 ELSE 4

\* the outcome of branch k (0 .. period - 1) of loop s the analyzer reads: TRUE taken
outcome(s, k) ==
  LET bits == IF s < 2 THEN s ELSE IF s < 6 THEN s - 2
              ELSE IF s < 14 THEN s - 6 ELSE s - 14
  IN (bits \div (2 ^ k)) % 2 = 1

\* the text: loop s lies at address 32 * s and holds its branches (bne r1,r2
\* where the analyzer is to read taken, beq r1,r2 where not taken, each with
\* the instruction after its delay slot as target), a jump back to its first
\* branch, and a NOP in the delay slot of the jump
LoopProgram(a) ==
  LET s == a \div 32
      k == (a % 32) \div 4
  IN IF k < period(s) THEN (IF outcome(s, k) THEN Type_I(5, 1, 2, 1)
                                             ELSE Type_I(4, 1, 2, 1))
     ELSE IF k = period(s) THEN Type_J(2, 8 * s)
     ELSE NOP

\* the run is entered at the first branch of any of the loops
LoopInit ==
  /\ global = variables
  /\ \E s \in LoopSlots : cpu = [begin EXCEPT !.ac_pc = 32 * s, !.npc = 32 * s + 4]
  /\ instr = NoInst
  /\ taken = 0

\* the driver fetches the instruction word at ac_pc
Loop_Fetch ==
  /\ global.number_of_instructions < MaxLoopRetired
  /\ cpu.ac_pc \div 32 \in LoopSlots
  /\ Step(LoopProgram(cpu.ac_pc))

LoopNext == Loop_Fetch

LoopSpec == LoopInit /\ [][LoopNext]_vars

\* the loop the run is in
C23_loop == cpu.ac_pc \div 32

\* C23: on every periodic pattern of period p <= 4 the two-level predictor,
\* started from its initial state, counts at most 2 x p mispredictions in
\* total.
C23_PeriodicPatternBounded ==
  global.two_level_wrong_predictions <= 2 * period(C23_loop)

\* in the repeated pattern of loop s two successive outcomes determine the
\* next one
C23_determined(s) ==
  \A a \in 0 .. (period(s) - 1) : \A b \in 0 .. (period(s) - 1) :
    (outcome(s, a) = outcome(s, b) /\
     outcome(s, (a + 1) % period(s)) = outcome(s, (b + 1) % period(s)))
      => outcome(s, (a + 2) % period(s)) = outcome(s, (b + 2) % period(s))

\* C23 for the patterns whose outcomes are determined by the two outcomes
\* before them: at most 2 x p mispredictions in total, and none once 2 x p
\* branches have been retired.
C23_DeterminedPatternBounded ==
  /\ [](C23_determined(C23_loop) =>
          global.two_level_wrong_predictions <= 2 * period(C23_loop))
  /\ [][ C23_determined(C23_loop) /\
         global.total_number_of_branches >= 2 * period(C23_loop) =>
           global'.two_level_wrong_predictions = global.two_level_wrong_predictions
       ]_vars

\* the loop not taken, not taken, taken after twelve branches: five
\* mispredictions, all among the first six branches
C23_Witness ==
  /\ C23_loop = 10
  /\ global.total_number_of_branches = 12
  /\ global.two_level_wrong_predictions = 5

\* C24: after every push the window holds at most 10 records, newest first,
\* none of them an encoded NOP; a non-NOP push puts the new record at the
\* front and drops only the oldest record when the size would exceed 10, and
\* a NOP push leaves the window as it was.
C24_WindowBoundedWithoutNops ==
  /\ [](/\ Len(global.latest_instructions) <= 10
        /\ \A k \in 1 .. Len(global.latest_instructions) :
             ~isNop(global.latest_instructions[k]))
  /\ [][ global'.latest_instructions =
           IF isNop(instr') THEN global.latest_instructions
           ELSE IF Len(global.latest_instructions) = 10
             THEN <<instr'>> \o SubSeq(global.latest_instructions, 1, 9)
             ELSE <<instr'>> \o global.latest_instructions ]_vars

\* a full window after more than ten pushes, NOPs among them
C24_Witness ==
  /\ Len(global.latest_instructions) = 10
  /\ global.number_of_instructions - global.number_of_nops > 12
  /\ global.number_of_nops > 2
  /\ instr = NOP

\* the state of the three predictors and their counters
C25_predictors(g) ==
  << g.saturating_stage, g.two_level_history, g.two_level_stages,
     g.static_wrong_predictions, g.saturating_wrong_predictions,
     g.two_level_wrong_predictions >>

\* C25: total_number_of_branches grows by exactly 1 with each retired beq,
\* bne, blez, bgtz, bltz or bgez and by 0 with any other instruction
\* (bltzal / bgezal included), and an instruction that is not one of the six
\* leaves the predictors and the three misprediction counters unchanged.
C25_OnlySixBranchesCounted ==
  [][ /\ global'.total_number_of_branches =
           global.total_number_of_branches + (IF isCondBranch(instr') THEN 1 ELSE 0)
      /\ ~isCondBranch(instr') => C25_predictors(global') = C25_predictors(global)
    ]_vars

\* 1 for an outcome of taken, 0 for not taken
C26_bit(ret) == IF ret = 2 THEN 1 ELSE 0

\* C26: on each branch handed to it the two-level predictor reads and updates
\* only the counter two_level_stages[h] selected by the history h held before
\* the branch (the other three are unchanged, the selected one moves by at
\* most 1, a misprediction is counted when its prediction differs from the
\* outcome) and then sets h to ((h << 1) | taken) & 3; so after two or more
\* branches h holds the outcomes of the last two, the most recent in bit 0.
C26_TwoLevelTouchesSelectedCounter ==
  /\ [](global.number_of_instructions <= kNumberOfStoredInstructions /\
        Len(predicted(global.latest_instructions)) >= 2 =>
          global.two_level_history =
            2 * C26_bit(actual_branch_taken_ret(predicted(global.latest_instructions)[2]))
              + C26_bit(actual_branch_taken_ret(predicted(global.latest_instructions)[1])))
  /\ [][ taken' # 0 =>
           /\ \A x \in 0 .. 3 :
                x # global.two_level_history =>
                  global'.two_level_stages[x] = global.two_level_stages[x]
           /\ global'.two_level_stages[global.two_level_history]
                - global.two_level_stages[global.two_level_history] \in {-1, 0, 1}
           /\ global'.two_level_wrong_predictions - global.two_level_wrong_predictions =
                (IF (taken' = 2) # (global.two_level_stages[global.two_level_history] >= 2)
                   THEN 1 ELSE 0)
           /\ global'.two_level_history =
                (2 * global.two_level_history + C26_bit(taken')) % 4 ]_vars

\* taken, taken, not taken: the third branch is looked up under history 3,
\* mispredicted there, and leaves history 2
C26_Witness ==
  /\ global.total_number_of_branches = 3
  /\ global.two_level_history = 2
  /\ global.two_level_stages = (0 :> 3 @@ 1 :> 3 @@ 2 :> 2 @@ 3 :> 1)
  /\ global.two_level_wrong_predictions = 1

-----------------------------------------------------------------------------
(* The pair checker's groups against the behaviours *)

\* whether the behaviour of a record reads, or assigns, hi / lo
C27_readsHiLo(i) == i.type = kR /\ i.func \in {16, 18}
C27_writesHiLo(i) == i.type = kR /\ i.func \in {17, 19, 24, 25, 26, 27}

\* C27: the pair checker finds a group for every implemented instruction, and
\* the group's read and write register sets are the registers the
\* instruction's behaviour reads and writes.
C27_EveryInstructionClassified ==
  instr.type # "none" /\ ~isNop(instr) =>
    /\ groupOf(instr) # 0
    /\ LET g == groups[groupOf(instr)] IN
       /\ getRegs(instr, g.readFrom) = RB_read(instr)
       /\ getRegs(instr, g.writeTo) = RB_written(instr)
       /\ ("Rm" \in g.readFrom) = C27_readsHiLo(instr)
       /\ ("Rm" \in g.writeTo) = C27_writesHiLo(instr)

-----------------------------------------------------------------------------
(* The hazard counters across the three depths *)

\* C28: the hazard counts grow with the depth, number_of_data_hazards[k5] <=
\* [k7] <= [k13] and number_of_control_hazards likewise, and one retired
\* instruction raises each counter by at most 1.
C28_HazardsMonotoneInDepth ==
  /\ [](/\ global.number_of_data_hazards[k5] <= global.number_of_data_hazards[k7]
        /\ global.number_of_data_hazards[k7] <= global.number_of_data_hazards[k13]
        /\ global.number_of_control_hazards[k5] <= global.number_of_control_hazards[k7]
        /\ global.number_of_control_hazards[k7] <= global.number_of_control_hazards[k13])
  /\ [][ \A s \in {k5, k7, k13} :
           /\ global'.number_of_data_hazards[s]
                - global.number_of_data_hazards[s] \in {0, 1}
           /\ global'.number_of_control_hazards[s]
                - global.number_of_control_hazards[s] \in {0, 1} ]_vars

\* lw r1; addiu r3; addu r2,r1,r1; addu r2,r1,r1: the first reader is two
\* behind the load (counted at 7 and 13 stages), the second three behind
\* (counted at 13 stages only)
C28_Witness ==
  /\ global.number_of_data_hazards[k5] = 0
  /\ global.number_of_data_hazards[k7] = 1
  /\ global.number_of_data_hazards[k13] = 2

-----------------------------------------------------------------------------
(* The producers behind a counted hazard *)

\* whether the record prod assigns something the record cons reads
C29_produces(prod, cons) ==
  \/ RB_read(cons) \cap RB_written(prod) # {}
  \/ C27_readsHiLo(cons) /\ C27_writesHiLo(prod)

\* whether one of the nearest `distance` retired records before cons, newest
\* first in win, assigns something cons reads
C29_producerWithin(win, cons, distance) ==
  \E k \in 1 .. distance : Len(win) >= k /\ C29_produces(win[k], cons)

\* C29: in a stream without NOPs a hazard counter of a depth is incremented
\* only if a register the instruction reads was written by an earlier
\* retired instruction within that depth's threshold distance; a register
\* never written causes no hazard.
C29_HazardHasProducer ==
  [][ global'.number_of_nops = 0 =>
        \A s \in {k5, k7, k13} :
          (\/ global'.number_of_data_hazards[s] # global.number_of_data_hazards[s]
           \/ global'.number_of_control_hazards[s] # global.number_of_control_hazards[s])
            => C29_producerWithin(global.latest_instructions, instr',
                                  hazard_table(is_fowarding, s)) ]_vars

\* whether the nearest earlier record of win (newest first) that assigns the
\* general register r is a load among the first `slice` records
C30_nearestProducerIsLoad(win, r, slice) ==
  \E k \in 1 .. slice :
    /\ Len(win) >= k
    /\ r \in RB_written(win[k])
    /\ isLoad(win[k])
    /\ \A m \in 1 .. (k - 1) : r \notin RB_written(win[m])

\* C30: under forwarding every counted data hazard is a load-use: when
\* number_of_data_hazards[s] is incremented, the most recent producer of one
\* of the registers the instruction reads is a load inside the lookback slice
\* of depth s (one record at 5 stages, two at 7, three at 13).
C30_CountedDataHazardIsLoadUse ==
  [][ \A s \in {k5, k7, k13} :
        global'.number_of_data_hazards[s] # global.number_of_data_hazards[s] =>
          \E r \in RB_read(instr') :
            C30_nearestProducerIsLoad(global.latest_instructions, r, s + 1) ]_vars

====
